---- MODULE Spec2Model ----
(***************************************************************************)
(* State-machine model of src/src/PostgresConnection.js: the postgres      *)
(* adapter class that extends the generic Connection of                    *)
(* related-db-connection.  The driver handle (pg.Client) and the caller    *)
(* are the environment; the inherited methods the adapter calls (query,    *)
(* end, emit, removeFromPool) are modelled from the specification.          *)
(***************************************************************************)
EXTENDS Integers, Sequences, FiniteSets, TLC

\* ------------------------------------------------------------------ bounds
\* calls (query / lock / createTransaction) the caller makes in one run
MaxCalls == 2
\* 'error' events the driver handle emits in one run
MaxErrors == 2
\* end() calls the caller makes in one run
MaxEnds == 1
MaxSqlLen == 4
MaxValues == 2

\* ------------------------------------------------------- program constants
DefaultPort == 5432
DefaultUser == "postgres"

\* ------------------------------------------------------------------ values
\* A JavaScript value as the driver hands it to the query callback:
\* t is "null", "undefined", "object" (a pg result with its
\* command tag and rows), "array" (a row list) or "row" (one row).
Val(t, command, hasRows, rows) ==
    [t |-> t, command |-> command, hasRows |-> hasRows, rows |-> rows]

Null == Val("null", "", FALSE, <<>>)
Undefined == Val("undefined", "", FALSE, <<>>)
Result(command, rows) == Val("object", command, TRUE, rows)
ResultNoRows(command) == Val("object", command, FALSE, <<>>)
Array(rows) == Val("array", "", TRUE, rows)
Row(r) == Val("row", "", TRUE, <<r>>)

\* what the driver may pass as data to a query callback
DriverData ==
    { Null, Undefined,
      Result("SELECT", <<>>), Result("SELECT", <<"r1", "r2">>),
      Result("INSERT", <<>>), Result("INSERT", <<"r1", "r2">>),
      ResultNoRows("INSERT"), Result("UPDATE", <<>>) }

\* ------------------------------------------------------------------ errors
\* An error as the adapter passes it on: kind is the class/meaning, code the
\* driver code it was made from ("" when the error carries none).
Err(kind, code) == [kind |-> kind, code |-> code]
NoErr == Err("none", "")

\* error codes the driver may report to the connect callback
ConnectCodes == { "28P01", "ECONNREFUSED", "23505" }
\* error codes the driver may report with an 'error' event
AsyncCodes == { "ECONNRESET", "23505" }
\* error codes the driver may report to a query callback ("" is no code)
QueryCodes == { "23505", "42601", "" }

\* lines 61-67: the mapping applied to the connect callback's error
ConnectErrorMap(code) ==
    IF code = "28P01" THEN Err("InvalidCredentials", code)
    ELSE IF code = "ECONNREFUSED" THEN Err("FailedToConnect", code)
    ELSE IF code = "ENETUNREACH" THEN Err("FailedToConnect", code)
    ELSE IF code = "ECONNRESET" THEN Err("FailedToConnect", code)
    ELSE IF code = "EHOSTUNREACH" THEN Err("FailedToConnect", code)
    ELSE Err("Generic", code)

\* lines 76-79: the mapping applied to an asynchronous 'error' event
AsyncErrorMap(code) ==
    IF code = "ECONNREFUSED" THEN Err("FailedToConnect", code)
    ELSE IF code = "ENETUNREACH" THEN Err("FailedToConnect", code)
    ELSE IF code = "ECONNRESET" THEN Err("FailedToConnect", code)
    ELSE IF code = "EHOSTUNREACH" THEN Err("FailedToConnect", code)
    ELSE Err("Generic", code)

\* a plausible slip: the unique-violation code is not translated
QueryErrorMapNoDuplicate(code) == Err("Generic", code)

\* line 171: the mapping applied to a query callback's error
QueryErrorMap(code) ==
    IF code # "" /\ code = "23505" THEN Err("DuplicateKey", code)
    ELSE Err("Generic", code)

\* ------------------------------------------------------ query callback
\* What the driver answers to one request: an error (with its code) or data.
Answer(isErr, code, data) == [isErr |-> isErr, code |-> code, data |-> data]
DriverAnswers ==
    { Answer(TRUE, c, Undefined) : c \in QueryCodes }
        \cup { Answer(FALSE, "", d) : d \in DriverData }

\* What the callback of executeQuery decides: resolve(val), reject(err), or
\* call executeQuery again with dontRetry = true.
Outcome(act, val, err) == [act |-> act, val |-> val, err |-> err]

\* a plausible slip: the last row is taken instead of the first
FirstRowOrNullLastRow(data) ==
    IF data.hasRows /\ Len(data.rows) > 0
        THEN Row(data.rows[Len(data.rows)])
    ELSE Null

\* line 185: data.rows && data.rows.length ? data.rows[0] : null
FirstRowOrNull(data) ==
    IF data.hasRows /\ Len(data.rows) > 0 THEN Row(data.rows[1]) ELSE Null

\* a plausible slip: an empty row set is turned into null
RowsOfNullWhenEmpty(data) ==
    IF data.hasRows /\ Len(data.rows) > 0 THEN Array(data.rows) ELSE Null

\* line 181: data.rows
RowsOf(data) == IF data.hasRows THEN Array(data.rows) ELSE Undefined

\* a plausible slip: the retry is asked for whatever dontRetry says
QueryCallbackAlwaysRetry(dontRetry, ast, ans) ==
    IF ans.isErr THEN Outcome("reject", Undefined, QueryErrorMap(ans.code))
    ELSE IF ast THEN Outcome("resolve", ans.data, NoErr)
    ELSE IF ans.data.t = "object" THEN
        CASE ans.data.command = "SELECT" ->
                Outcome("resolve", RowsOf(ans.data), NoErr)
          [] ans.data.command = "INSERT" ->
                Outcome("resolve", FirstRowOrNull(ans.data), NoErr)
          [] OTHER -> Outcome("resolve", ans.data, NoErr)
    ELSE IF ans.data.t = "null" THEN Outcome("retry", Undefined, NoErr)
    ELSE Outcome("reject", Undefined, Err("UnexpectedResult", ""))

\* a plausible slip: the retry is asked for an absent result too
QueryCallbackRetryOnAbsent(dontRetry, ast, ans) ==
    IF ans.isErr THEN Outcome("reject", Undefined, QueryErrorMap(ans.code))
    ELSE IF ast THEN Outcome("resolve", ans.data, NoErr)
    ELSE IF ans.data.t = "object" THEN
        CASE ans.data.command = "SELECT" ->
                Outcome("resolve", RowsOf(ans.data), NoErr)
          [] ans.data.command = "INSERT" ->
                Outcome("resolve", FirstRowOrNull(ans.data), NoErr)
          [] OTHER -> Outcome("resolve", ans.data, NoErr)
    ELSE IF ~dontRetry /\ ans.data.t \in {"null", "undefined"}
        THEN Outcome("retry", Undefined, NoErr)
    ELSE Outcome("reject", Undefined, Err("UnexpectedResult", ""))

\* a plausible slip: an unexpected value is passed over in silence
QueryCallbackSilentOnUnexpected(dontRetry, ast, ans) ==
    IF ans.isErr THEN Outcome("reject", Undefined, QueryErrorMap(ans.code))
    ELSE IF ast THEN Outcome("resolve", ans.data, NoErr)
    ELSE IF ans.data.t = "object" THEN
        CASE ans.data.command = "SELECT" ->
                Outcome("resolve", RowsOf(ans.data), NoErr)
          [] ans.data.command = "INSERT" ->
                Outcome("resolve", FirstRowOrNull(ans.data), NoErr)
          [] OTHER -> Outcome("resolve", ans.data, NoErr)
    ELSE IF ~dontRetry /\ ans.data.t = "null"
        THEN Outcome("retry", Undefined, NoErr)
    ELSE Outcome("nothing", Undefined, NoErr)

\* a plausible slip: the result is shaped by its command before the AST
\* origin is looked at
QueryCallbackShapesAst(dontRetry, ast, ans) ==
    IF ans.isErr THEN Outcome("reject", Undefined, QueryErrorMap(ans.code))
    ELSE IF ans.data.t = "object" THEN
        CASE ans.data.command = "SELECT" ->
                Outcome("resolve", RowsOf(ans.data), NoErr)
          [] ans.data.command = "INSERT" ->
                Outcome("resolve", FirstRowOrNull(ans.data), NoErr)
          [] OTHER -> Outcome("resolve", ans.data, NoErr)
    ELSE IF ast THEN Outcome("resolve", ans.data, NoErr)
    ELSE IF ~dontRetry /\ ans.data.t = "null"
        THEN Outcome("retry", Undefined, NoErr)
    ELSE Outcome("reject", Undefined, Err("UnexpectedResult", ""))

\* lines 170-201: the callback executeQuery hands to connection.query
QueryCallback(dontRetry, ast, ans) ==
    IF ans.isErr THEN Outcome("reject", Undefined, QueryErrorMap(ans.code))
    ELSE IF ast THEN Outcome("resolve", ans.data, NoErr)
    ELSE IF ans.data.t = "object" THEN
        CASE ans.data.command = "SELECT" ->
                Outcome("resolve", RowsOf(ans.data), NoErr)
          [] ans.data.command = "INSERT" ->
                Outcome("resolve", FirstRowOrNull(ans.data), NoErr)
          [] OTHER -> Outcome("resolve", ans.data, NoErr)
    ELSE IF ~dontRetry /\ ans.data.t = "null"
        THEN Outcome("retry", Undefined, NoErr)
    ELSE Outcome("reject", Undefined, Err("UnexpectedResult", ""))

\* ------------------------------------------------------------ lock modes
\* the lock types a caller may pass: the two supported ones, the one the
\* comment of lines 25-29 names as not implemented, and a name every
\* JavaScript object inherits from Object.prototype
LockTypes == { "LOCK_WRITE", "LOCK_EXCLUSIVE", "LOCK_READ", "toString" }

\* names an object literal inherits from Object.prototype
InheritedNames == { "toString" }

\* a property read: found tells whether the value is truthy, text is the
\* value concatenated into a string
Prop(found, text) == [found |-> found, text |-> text]

\* lines 30-33 read as this.lockModes[lockType] (lines 119, 121): an own
\* property of the literal, else a property found on the prototype chain
LockModesLookup(lockType) ==
    IF lockType = "LOCK_WRITE" THEN Prop(TRUE, "SHARE ROW EXCLUSIVE")
    ELSE IF lockType = "LOCK_EXCLUSIVE" THEN Prop(TRUE, "ACCESS EXCLUSIVE")
    ELSE IF lockType \in InheritedNames
        THEN Prop(TRUE, "function " \o lockType \o "() { [native code] }")
    ELSE Prop(FALSE, "undefined")

\* ---------------------------------------------------------- identifiers
\* an identifier argument: a string (its characters) or undefined
Str(chars) == [t |-> "string", s |-> chars]
UndefinedId == [t |-> "undefined", s |-> <<>>]

Schemas == { UndefinedId, Str(<<"s">>) }
Tables == { Str(<<"t", "\"">>), Str(<<>>) }

\* the result of a call that may throw
Ok(text) == [ok |-> TRUE, text |-> text, err |-> NoErr]
Throw(err) == [ok |-> FALSE, text |-> <<>>, err |-> err]

RECURSIVE DoubleQuotes(_)
\* str.replace(/"/g, '""')
DoubleQuotes(chars) ==
    IF chars = <<>> THEN <<>>
    ELSE (IF Head(chars) = "\"" THEN <<"\"", "\"">> ELSE <<Head(chars)>>)
            \o DoubleQuotes(Tail(chars))

\* line 154: connection.escapeIdentifier of the pg driver
EscapeIdentifier(chars) == <<"\"">> \o DoubleQuotes(chars) \o <<"\"">>

\* lines 151-155: escapeId; present tells whether this.connection exists
EscapeId(input, present) ==
    IF input.t # "string" \/ Len(input.s) = 0
        THEN Throw(Err("InvalidArgument", "id"))
    ELSE IF ~present THEN Throw(Err("TypeError", ""))
    ELSE Ok(EscapeIdentifier(input.s))

\* line 121, `schema ? ... : ''`: a string is truthy when it is not empty
Truthy(input) == input.t = "string" /\ Len(input.s) > 0

\* a plausible slip: the table name is concatenated without escapeId
LockStatementRawTable(schema, table, lockType, present) ==
    LET sch == IF Truthy(schema) THEN EscapeId(schema, present) ELSE Ok(<<>>)
        tab == EscapeId(table, present)
    IN  IF ~sch.ok THEN sch
        ELSE IF ~tab.ok THEN tab
        ELSE Ok(<<"LOCK TABLE ">>
                \o (IF Truthy(schema) THEN sch.text \o <<".">> ELSE <<>>)
                \o table.s
                \o <<" IN ", LockModesLookup(lockType).text, " MODE;">>)

\* line 121: the statement text, a sequence of text pieces; the operands
\* are evaluated left to right and the first throw ends the evaluation
LockStatement(schema, table, lockType, present) ==
    LET sch == IF Truthy(schema) THEN EscapeId(schema, present) ELSE Ok(<<>>)
        tab == EscapeId(table, present)
    IN  IF ~sch.ok THEN sch
        ELSE IF ~tab.ok THEN tab
        ELSE Ok(<<"LOCK TABLE ">>
                \o (IF Truthy(schema) THEN sch.text \o <<".">> ELSE <<>>)
                \o tab.text
                \o <<" IN ", LockModesLookup(lockType).text, " MODE;">>)

\* lines 118-125: what lock does before any promise settles: call back
\* with the invalid-lock-type error, throw, or hand a statement to query
LockPlan(schema, table, lockType, present) ==
    IF ~LockModesLookup(lockType).found
        THEN [act |-> "callback", sql |-> <<>>,
              err |-> Err("InvalidArgument", "lockType")]
    ELSE LET st == LockStatement(schema, table, lockType, present)
         IN  IF st.ok THEN [act |-> "query", sql |-> st.text, err |-> NoErr]
             ELSE [act |-> "throw", sql |-> <<>>, err |-> st.err]

\* --------------------------------------------------------- renderSQLQuery
\* Texts are sequences of characters; positions are counted from 0 as
\* JavaScript counts them.
Digits == { "0", "1", "2", "3", "4", "5", "6", "7", "8", "9" }

RECURSIVE DigitRun(_, _)
\* the number of digits of text from the 1-based position p on
DigitRun(text, p) ==
    IF p <= Len(text) /\ text[p] \in Digits THEN 1 + DigitRun(text, p + 1)
    ELSE 0

Min(S) == CHOOSE x \in S : \A y \in S : x <= y

\* line 247 and 250: reg.exec(sql) of /\$[0-9]+/gi with reg.lastIndex =
\* lastIndex: the leftmost match at or after lastIndex, taking every digit
\* that follows; lastIndex is then the end of the match, or 0 when there
\* is no match
RegExec(text, lastIndex) ==
    LET starts == { i \in lastIndex .. (Len(text) - 2) :
                        text[i + 1] = "$" /\ text[i + 2] \in Digits }
    IN  IF starts = {}
            THEN [found |-> FALSE, index |-> 0, text |-> <<>>, lastIndex |-> 0]
        ELSE LET i == Min(starts)
                 n == 1 + DigitRun(text, i + 2)
             IN  [found |-> TRUE, index |-> i,
                  text |-> SubSeq(text, i + 1, i + n), lastIndex |-> i + n]

\* String.prototype.indexOf: the first position of pat in text, -1 if none
IndexOf(text, pat) ==
    LET at == { p \in 0 .. (Len(text) - Len(pat)) :
                    SubSeq(text, p + 1, p + Len(pat)) = pat }
    IN  IF at = {} THEN -1 ELSE Min(at)

\* the grave accent character, which a TLA+ string cannot hold
Grave == "grave"

RECURSIVE GetSubstitution(_, _, _, _)
\* line 253, String.prototype.replace with a string pattern: in the
\* replacement text $$ stands for $, $& for the matched text, $ with a
\* grave accent for the text before the match and $' for the text after it; there are no
\* captures, so $ followed by anything else stands for itself
GetSubstitution(repl, matched, before, after) ==
    IF repl = <<>> THEN <<>>
    ELSE IF Head(repl) = "$" /\ Len(repl) >= 2 /\ repl[2] \in {"$", "&", Grave, "'"}
        THEN (CASE repl[2] = "$" -> <<"$">>
                [] repl[2] = "&" -> matched
                [] repl[2] = Grave -> before
                [] OTHER -> after)
             \o GetSubstitution(SubSeq(repl, 3, Len(repl)), matched, before,
                                after)
    ELSE <<Head(repl)>> \o GetSubstitution(Tail(repl), matched, before, after)

\* line 253, sql.replace(match[0], ...): the first occurrence of pat in
\* text is replaced, wherever the scan has met its match
StringReplace(text, pat, repl) ==
    LET p == IndexOf(text, pat)
        before == SubSeq(text, 1, p)
        after == SubSeq(text, p + Len(pat) + 1, Len(text))
    IN  IF p < 0 THEN text
        ELSE before \o GetSubstitution(repl, pat, before, after) \o after

RECURSIVE EscapeQuotes(_)
\* the loop of the pg driver's escapeLiteral: ' and \ are doubled
EscapeQuotes(chars) ==
    IF chars = <<>> THEN <<>>
    ELSE (IF Head(chars) \in {"'", "\\"} THEN <<Head(chars), Head(chars)>>
          ELSE <<Head(chars)>>) \o EscapeQuotes(Tail(chars))

\* line 139: connection.escapeLiteral of the pg driver: the text in single
\* quotes, prefixed with ' E' when it holds a backslash
EscapeLiteral(chars) ==
    (IF \E k \in DOMAIN chars : chars[k] = "\\" THEN <<" ", "E">> ELSE <<>>)
        \o <<"'">> \o EscapeQuotes(chars) \o <<"'">>

\* line 139, input + '': a string as it is, undefined as 'undefined'
ToText(input) ==
    IF input.t = "string" THEN input.s
    ELSE <<"u", "n", "d", "e", "f", "i", "n", "e", "d">>

\* lines 138-140: escape; present tells whether this.connection exists
Escape(input, present) ==
    IF ~present THEN Throw(Err("TypeError", ""))
    ELSE Ok(EscapeLiteral(ToText(input)))

\* values[index], index counted from 0: undefined past the end
ValueAt(values, index) ==
    IF index < Len(values) THEN values[index + 1] ELSE UndefinedId

\* the locals of one renderSQLQuery invocation: the arguments, the sql
\* text as rewritten so far, reg.lastIndex, index, and how far it got
\* ("loop", "returned", "thrown"); "none" when there is no invocation
RenderState(sql, values, cur, lastIndex, index, st) ==
    [sql |-> sql, values |-> values, cur |-> cur, lastIndex |-> lastIndex,
     index |-> index, st |-> st]
NoRender == RenderState(<<>>, <<>>, <<>>, 0, 0, "none")

\* lines 244-248: the locals when the loop is entered
RenderStart(sql, values) == RenderState(sql, values, sql, 0, 0, "loop")

\* lines 250-259: one pass of the loop for the match m; escape is called
\* in every pass (line 256), so a pass throws without a handle
RenderPass(r, m, present) ==
    LET esc == Escape(ValueAt(r.values, r.index), present)
    IN  IF ~esc.ok THEN [r EXCEPT !.st = "thrown"]
        ELSE [r EXCEPT
                !.cur = IF Len(r.values) > r.index
                            THEN StringReplace(r.cur, m.text, esc.text)
                        ELSE r.cur,
                !.lastIndex = m.lastIndex + Len(esc.text) - Len(m.text),
                !.index = r.index + 1]

\* -------------------------------------------------------------- promises
Promise(st, val, err) == [st |-> st, val |-> val, err |-> err]
NoPromise == Promise("none", Undefined, NoErr)
Pending == Promise("pending", Undefined, NoErr)
Resolved(val) == Promise("resolved", val, NoErr)
Rejected(err) == Promise("rejected", Undefined, err)

\* ----------------------------------------------------------------- calls
\* the query contexts a caller passes to query()
QueryContexts ==
    { [sql |-> <<"SELECT $1">>, values |-> <<"a">>, ast |-> FALSE],
      [sql |-> <<"SELECT 1">>, values |-> <<>>, ast |-> FALSE],
      [sql |-> <<"SELECT 1">>, values |-> <<>>, ast |-> TRUE] }

\* the arguments of lock; NoLockArgs for the other calls
LockArgs(schema, table, lockType) ==
    [schema |-> schema, table |-> table, lockType |-> lockType]
NoLockArgs == LockArgs(UndefinedId, UndefinedId, "")

\* the argument lists callers pass to lock: every schema and lock type with
\* the table name that is not empty, and the empty table name once
LockInputs ==
    { a \in { LockArgs(schema, table, lockType) :
                schema \in Schemas, table \in Tables, lockType \in LockTypes } :
        \/ a.table.s # <<>>
        \/ a.schema = UndefinedId /\ a.lockType = "LOCK_WRITE" }

\* One call of query, lock or createTransaction, with what it did so far.
\*   schema, table, lockType   the arguments of lock
\*   attempts   executeQuery invocations made for the call
\*   sends      the (sql, values) pairs handed to connection.query
\*   req        a request is with the driver, its callback not yet called
\*   dontRetry  the dontRetry argument of the invocation that sent req
\*   answers    the driver's answers, in order
\*   inner      the promise executeQuery returned
\*   outer      the promise query() returned
\*   cbCount    invocations of lock's callback; cbErr, cbVal the arguments
\*              of the last one
\*   cbThrows   the callback handed to lock threw when it was invoked
\*              with a result or with the invalid-lock-type error
\*   thrown     the error the call threw synchronously
\*   issued     the query() invocations the call made, each with the
\*              transaction and pool flags at that moment
\*   before     this.ended, this.killed, the transaction flags and the pool
\*              membership when the call began
\*   hit        the handle emitted 'error' while query()'s promise was
\*              pending
NewCall(op, sql, values, ast, mode, args, before) ==
    [op |-> op, sql |-> sql, values |-> values, ast |-> ast, mode |-> mode,
     schema |-> args.schema, table |-> args.table,
     lockType |-> args.lockType, attempts |-> 0, sends |-> <<>>, req |-> FALSE,
     dontRetry |-> FALSE, answers |-> <<>>, inner |-> NoPromise,
     outer |-> NoPromise, cbCount |-> 0, cbErr |-> NoErr, cbVal |-> Undefined,
     cbThrows |-> FALSE,
     thrown |-> NoErr, issued |-> <<>>, before |-> before, hit |-> FALSE]

\* lines 121-123: .then(data => callback(null, data)).catch(callback).
\* The handler of then calls callback(null, data); when the callback
\* throws there, the promise then returned is rejected with what it threw
\* and catch calls the callback again, with that error.  A rejection of
\* query() goes to catch alone.
LockCallback(c) ==
    IF c.op = "lock" /\ c.outer.st = "resolved" /\ c.cbThrows
        THEN [c EXCEPT !.cbCount = @ + 2, !.cbErr = Err("CallbackThrow", ""),
                       !.cbVal = Undefined]
    ELSE IF c.op = "lock" /\ c.outer.st \in {"resolved", "rejected"}
        THEN [c EXCEPT !.cbCount = @ + 1, !.cbErr = c.outer.err,
                       !.cbVal = c.outer.val]
    ELSE c

\* the promise query() returned settles once; lock's handlers then run
SettleOuter(c, p) ==
    IF c.outer.st = "pending" THEN LockCallback([c EXCEPT !.outer = p]) ELSE c

\* the promise executeQuery returned settles once (resolve and reject of
\* line 168); query() passes the outcome on
SettleInner(c, p) ==
    IF c.inner.st = "pending" THEN SettleOuter([c EXCEPT !.inner = p], p)
    ELSE c

\* lines 167-207 up to the driver call: executeQuery(queryContext,
\* dontRetry) with this.connection present or not; throws tells whether
\* connection.query throws synchronously
ExecuteQuery(c, present, throws, dontRetry) ==
    LET c1 == [c EXCEPT !.attempts = @ + 1,
                        !.inner = IF @.st = "none" THEN Pending ELSE @]
    IN  IF ~present THEN SettleInner(c1, Rejected(Err("TypeError", "")))
        ELSE LET c2 == [c1 EXCEPT !.sends =
                            Append(@, [sql |-> c.sql, values |-> c.values])]
             IN  IF throws
                    THEN SettleInner(c2, Rejected(Err("DriverThrow", "")))
                 ELSE [c2 EXCEPT !.req = TRUE, !.dontRetry = dontRetry]

\* lines 170-201 applied to one answer: the callback settles the promise or
\* calls executeQuery(queryContext, true), whose outcome it passes on
OnAnswer(c, ans, present, throws) ==
    LET c1 == [c EXCEPT !.req = FALSE, !.answers = Append(@, ans)]
        out == QueryCallback(c.dontRetry, c.ast, ans)
    IN  CASE out.act = "resolve" -> SettleInner(c1, Resolved(out.val))
          [] out.act = "reject" -> SettleInner(c1, Rejected(out.err))
          [] out.act = "retry" -> ExecuteQuery(c1, present, throws, TRUE)
          [] OTHER -> c1

\* query() of the base class: refuses on an ended or killed connection,
\* else runs executeQuery and passes its outcome on; tx and pool are the
\* transaction-open and pool flags when it is invoked
SuperQuery(c, isEnded, isKilled, present, throws, tx, pool) ==
    LET c1 == [c EXCEPT !.outer = Pending,
                        !.issued = Append(@, [sql |-> c.sql, mode |-> c.mode,
                                              transactionOpen |-> tx,
                                              inPool |-> pool])]
    IN  IF isEnded \/ isKilled
            THEN SettleOuter(c1, Rejected(Err("ConnectionEnded", "")))
        ELSE ExecuteQuery(c1, present, throws, FALSE)

\* the caller has the call's outcome
Settled(c) ==
    \/ c.outer.st \in {"resolved", "rejected"}
    \/ c.cbCount > 0
    \/ c.thrown # NoErr

\* ----------------------------------------------------------------- state
VARIABLES
    client,         \* the options new pg.Client was built with (line 49)
    conn,           \* this.connection exists
    listener,       \* the 'error' listener of line 74 is registered
    connectState,   \* "idle", "pending" (connect called), "done"
    connectErr,     \* the error the connect callback passed on
    handleEnds,     \* calls of end() on the driver handle
    handleEnded,    \* the driver handle has emitted 'end'
    endListener,    \* a once('end') listener is registered on the handle
    endCallbacks,   \* invocations of endConnection's callback
    ended,          \* this.ended
    killed,         \* this.killed
    isTransaction,  \* this.isTransaction
    transactionOpen,\* this.transactionOpen
    inPool,         \* the pool holds the connection
    events,         \* what the adapter did on the handle and signalled
    errorEvents,    \* 'error' events the driver handle has emitted
    handlerThrows,  \* 'error' events whose handler threw
    endLog,         \* the outcome of each end() call of the caller
    calls,          \* the calls not yet forgotten, oldest first
    nCalls,         \* calls made so far
    render          \* the renderSQLQuery invocation under way, if any

vars ==
    <<client, conn, listener, connectState, connectErr, handleEnds,
      handleEnded, endListener, endCallbacks, ended, killed, isTransaction,
      transactionOpen, inPool, events, errorEvents, handlerThrows, endLog,
      calls, nCalls, render>>

\* the state of the connection, renderSQLQuery's locals apart
connectionVars ==
    <<client, conn, listener, connectState, connectErr, handleEnds,
      handleEnded, endListener, endCallbacks, ended, killed, isTransaction,
      transactionOpen, inPool, events, errorEvents, handlerThrows, endLog,
      calls, nCalls>>

lifecycleVars == <<client, listener, connectState, connectErr>>
handleVars == <<conn, handleEnds, handleEnded, endListener, endCallbacks>>
flagVars == <<ended, killed>>
txVars == <<isTransaction, transactionOpen, inPool>>
errorVars == <<events, errorEvents, handlerThrows>>

\* the configurations a pool passes to driverConnect (0 and "" are unset)
Configs == { [port |-> 0, username |-> "app"] }

NoClient == [port |-> 0, username |-> ""]

\* a connection on which nothing but the connect has happened
Fresh(cl, present, state) ==
    /\ client = cl
    /\ conn = present
    /\ listener = present
    /\ connectState = state
    /\ connectErr = NoErr
    /\ handleEnds = 0
    /\ handleEnded = FALSE
    /\ endListener = FALSE
    /\ endCallbacks = 0
    /\ ended = FALSE
    /\ killed = FALSE
    /\ isTransaction = FALSE
    /\ transactionOpen = FALSE
    /\ inPool = TRUE
    /\ events = <<>>
    /\ errorEvents = 0
    /\ handlerThrows = 0
    /\ endLog = <<>>
    /\ calls = <<>>
    /\ nCalls = 0

Init ==
    /\ Fresh(NoClient, FALSE, "idle")
    /\ render = NoRender

\* The calls the driver still owes a callback.  A call that has finished is
\* kept in the state it finished in and forgotten by the next step.
Live(cs) == SelectSeq(cs, LAMBDA c : c.req)

\* a step that does not touch the calls
KeepCalls == calls' = Live(calls)

\* the flags a call finds when it begins
Flags ==
    [ended |-> ended, killed |-> killed, isTransaction |-> isTransaction,
     transactionOpen |-> transactionOpen, inPool |-> inPool]

\* the calls whose query() promise is pending when the handle emits 'error'
MarkHit(before, after) ==
    [i \in DOMAIN after |->
        IF before[i].outer.st = "pending" THEN [after[i] EXCEPT !.hit = TRUE]
        ELSE after[i]]

\* ------------------------------------------------------- handler steps
\* The part of the state a handler's statements act on, and the error a
\* statement threw (NoErr while none did).
Frame ==
    [conn |-> conn, handleEnds |-> handleEnds, endListener |-> endListener,
     events |-> events, killed |-> killed, calls |-> Live(calls),
     threw |-> NoErr]

Event(e, err) == [e |-> e, err |-> err]

\* emit('error', err) as the base class takes it: the pending query fails
\* with err
SuperEmitError(cs, err) ==
    [i \in DOMAIN cs |-> SettleOuter(cs[i], Rejected(err))]

\* end(err) of the base class: the connection is killed
SuperEndWithError(isKilled, err) == TRUE

\* end() of the base class does nothing on an ended or killed connection
SuperEndSkips(isEnded, isKilled) == isEnded \/ isKilled

\* removeFromPool() of the base class: the pool no longer holds the
\* connection
RemoveFromPool(pool) == FALSE

\* one statement of the 'error' handler (lines 83-92) or of endConnection
\* (lines 106-107), on frame f
Step(name, f, err) ==
    CASE name = "connection.end" ->
            IF ~f.conn THEN [f EXCEPT !.threw = Err("TypeError", "")]
            ELSE [f EXCEPT !.handleEnds = @ + 1,
                           !.events = Append(@, Event(name, NoErr))]
      [] name = "delete" ->
            [f EXCEPT !.conn = FALSE,
                      !.events = Append(@, Event(name, NoErr))]
      [] name = "emit" ->
            [f EXCEPT !.events = Append(@, Event(name, err)),
                      !.calls = SuperEmitError(@, err)]
      [] name = "end" ->
            [f EXCEPT !.killed = SuperEndWithError(@, err),
                      !.events = Append(@, Event(name, err))]
      [] name = "once" ->
            IF ~f.conn THEN [f EXCEPT !.threw = Err("TypeError", "")]
            ELSE [f EXCEPT !.endListener = TRUE,
                           !.events = Append(@, Event(name, NoErr))]

RECURSIVE Run(_, _, _)
\* the statements in order; a throw ends the handler
Run(steps, f, err) ==
    IF steps = <<>> \/ f.threw # NoErr THEN f
    ELSE Run(Tail(steps), Step(Head(steps), f, err), err)

\* plausible slips of the 'error' handler
ErrorHandlerNoEmit == <<"connection.end", "delete", "end">>
ErrorHandlerNoEnd == <<"connection.end", "delete", "emit">>

\* lines 83-92: the statements of the 'error' handler after the mapping
ErrorHandler == <<"connection.end", "delete", "emit", "end">>

\* a plausible slip: the close is requested before the listener is added
EndConnectionEndFirst == <<"connection.end", "once">>

\* lines 106-107: the statements of endConnection
EndConnection == <<"once", "connection.end">>

\* --------------------------------------------------------- transactions
\* plausible slips of the guard of createTransaction
CreateTransactionRefusesEndedOnly(isEnded, isKilled) == isEnded

\* line 217: this.ended || this.killed
CreateTransactionRefuses(isEnded, isKilled) == isEnded \/ isKilled

\* plausible slips of the body of createTransaction
CreateTransactionQueryFirst ==
    <<"query", "isTransaction", "transactionOpen", "removeFromPool">>

CreateTransactionNoDetach ==
    <<"isTransaction", "transactionOpen", "query">>

\* lines 220-229: the statements of createTransaction after the guard
CreateTransactionBody ==
    <<"isTransaction", "transactionOpen", "removeFromPool", "query">>

\* line 229: the context of the begin-transaction statement
BeginContext == [sql |-> <<"start transaction;">>, mode |-> "transaction"]

\* one statement of createTransaction on frame t (the flags and the call)
TxStep(name, t, present, throws) ==
    CASE name = "isTransaction" -> [t EXCEPT !.isTransaction = TRUE]
      [] name = "transactionOpen" -> [t EXCEPT !.transactionOpen = TRUE]
      [] name = "removeFromPool" ->
            [t EXCEPT !.inPool = RemoveFromPool(@)]
      [] name = "query" ->
            [t EXCEPT !.call = SuperQuery(@, ended, killed, present, throws,
                                          t.transactionOpen, t.inPool)]

RECURSIVE RunTx(_, _, _, _)
RunTx(steps, t, present, throws) ==
    IF steps = <<>> THEN t
    ELSE RunTx(Tail(steps), TxStep(Head(steps), t, present, throws),
               present, throws)

\* --------------------------------------------------------------- actions
\* connection.query may throw synchronously, when it is reached at all
Throws(reached) == IF reached THEN BOOLEAN ELSE {FALSE}

\* the callback handed to lock may throw, when it is invoked at all
CallbackThrows(invoked) == IF invoked THEN BOOLEAN ELSE {FALSE}

\* the callback of call c is invoked with a result and throws or not; a
\* step that ends without the result leaves its behaviour open
WithCallback(c, cbThrows) == [c EXCEPT !.cbThrows = cbThrows]
Invoked(c) ==
    IF c.outer.st = "resolved" THEN c ELSE [c EXCEPT !.cbThrows = FALSE]

\* callers serialize their requests (one call at a time)
CallerIdle == \A i \in DOMAIN calls : Settled(calls[i])

\* the pool hands out a connection once its connect has succeeded
Connected == connectState = "done" /\ connectErr = NoErr

CanCall == nCalls < MaxCalls /\ Connected /\ CallerIdle

\* lines 43-94: driverConnect, called once by the base class's connect
DriverConnect ==
    /\ connectState = "idle"
    /\ \E config \in Configs :
          client' = [port |-> IF config.port = 0 THEN DefaultPort
                              ELSE config.port,
                     username |-> IF config.username = "" THEN DefaultUser
                                  ELSE config.username]
    /\ conn' = TRUE
    /\ connectState' = "pending"
    /\ listener' = TRUE
    /\ UNCHANGED render
    /\ UNCHANGED <<connectErr, handleEnds, handleEnded, endListener,
                   endCallbacks, flagVars, txVars, errorVars, endLog, nCalls>>
    /\ KeepCalls

\* lines 60-70: the driver calls the connect callback, with or without error
ConnectCallback ==
    /\ connectState = "pending"
    /\ connectState' = "done"
    /\ \/ connectErr' = NoErr
       \/ \E code \in ConnectCodes : connectErr' = ConnectErrorMap(code)
    /\ UNCHANGED render
    /\ UNCHANGED <<client, listener, handleVars, flagVars, txVars, errorVars,
                   endLog, nCalls>>
    /\ KeepCalls

\* lines 74-93: the driver handle emits 'error'
AsyncError ==
    /\ listener
    /\ errorEvents < MaxErrors
    /\ \E code \in AsyncCodes :
          LET f == Run(ErrorHandler, Frame, AsyncErrorMap(code))
          IN  /\ conn' = f.conn
              /\ handleEnds' = f.handleEnds
              /\ events' = f.events
              /\ killed' = f.killed
              /\ calls' = MarkHit(Live(calls), f.calls)
              /\ handlerThrows' =
                    IF f.threw # NoErr THEN handlerThrows + 1
                    ELSE handlerThrows
    /\ errorEvents' = errorEvents + 1
    /\ UNCHANGED render
    /\ UNCHANGED <<lifecycleVars, handleEnded, endListener, endCallbacks,
                   ended, txVars, endLog, nCalls>>

\* end() of the base class, which runs endConnection (lines 105-108) unless
\* the connection has ended or was killed
End ==
    /\ Len(endLog) < MaxEnds
    /\ LET noop == SuperEndSkips(ended, killed)
           f == IF noop THEN Frame ELSE Run(EndConnection, Frame, NoErr)
       IN  /\ ended' = (ended \/ ~killed)
           /\ conn' = f.conn
           /\ handleEnds' = f.handleEnds
           /\ endListener' = f.endListener
           /\ events' = f.events
           /\ endLog' = Append(endLog,
                               [afterError |-> errorEvents > 0,
                                noop |-> noop,
                                raised |-> f.threw,
                                handleCalls |-> Len(f.events) - Len(events)])
    /\ UNCHANGED render
    /\ UNCHANGED <<lifecycleVars, handleEnded, endCallbacks, killed, txVars,
                   errorEvents, handlerThrows, nCalls>>
    /\ KeepCalls

\* the driver handle emits 'end' after end() was called on it; the
\* once-listener of line 106 runs
HandleEnd ==
    /\ handleEnds > 0
    /\ ~handleEnded
    /\ handleEnded' = TRUE
    /\ endListener' = FALSE
    /\ endCallbacks' = IF endListener THEN endCallbacks + 1 ELSE endCallbacks
    /\ UNCHANGED render
    /\ UNCHANGED <<lifecycleVars, conn, handleEnds, flagVars, txVars,
                   errorVars, endLog, nCalls>>
    /\ KeepCalls

\* the caller passes a query context to query()
Query ==
    /\ CanCall
    /\ \E ctx \in QueryContexts, throws \in Throws(conn /\ ~ended /\ ~killed) :
          calls' = Append(Live(calls),
                SuperQuery(NewCall("query", ctx.sql, ctx.values, ctx.ast, "",
                                   NoLockArgs, Flags),
                           ended, killed, conn, throws, transactionOpen,
                           inPool))
    /\ nCalls' = nCalls + 1
    /\ UNCHANGED render
    /\ UNCHANGED <<lifecycleVars, handleVars, flagVars, txVars, errorVars,
                   endLog>>

\* lines 118-125: lock(schema, table, lockType, callback)
Lock ==
    /\ CanCall
    /\ \E a \in LockInputs :
       \E throws \in Throws(conn /\ ~ended /\ ~killed
                    /\ LockPlan(a.schema, a.table, a.lockType, conn).act
                            = "query") :
       \E cbThrows \in CallbackThrows(~LockModesLookup(a.lockType).found) :
          LET schema == a.schema
              table == a.table
              lockType == a.lockType
              plan == LockPlan(schema, table, lockType, conn)
              c == [NewCall("lock", plan.sql, <<>>, FALSE, "",
                            LockArgs(schema, table, lockType), Flags)
                        EXCEPT !.cbThrows = cbThrows]
          IN  calls' = Append(Live(calls),
                CASE plan.act = "callback" ->
                        [c EXCEPT !.cbCount = 1, !.cbErr = plan.err,
                                  !.thrown = IF cbThrows
                                                THEN Err("CallbackThrow", "")
                                             ELSE NoErr]
                  [] plan.act = "throw" -> [c EXCEPT !.thrown = plan.err]
                  [] OTHER -> SuperQuery(c, ended, killed, conn, throws,
                                         transactionOpen, inPool))
    /\ nCalls' = nCalls + 1
    /\ UNCHANGED render
    /\ UNCHANGED <<lifecycleVars, handleVars, flagVars, txVars, errorVars,
                   endLog>>

\* lines 216-230: createTransaction()
CreateTransaction ==
    /\ CanCall
    /\ \E throws \in Throws(conn /\ ~ended /\ ~killed) :
          LET c == NewCall("createTransaction", BeginContext.sql, <<>>,
                           FALSE, BeginContext.mode, NoLockArgs, Flags)
              t == IF CreateTransactionRefuses(ended, killed)
                     THEN [isTransaction |-> isTransaction,
                           transactionOpen |-> transactionOpen,
                           inPool |-> inPool,
                           call |-> [c EXCEPT !.outer =
                                Rejected(Err("ConnectionEnded", ""))]]
                   ELSE RunTx(CreateTransactionBody,
                              [isTransaction |-> isTransaction,
                               transactionOpen |-> transactionOpen,
                               inPool |-> inPool, call |-> c],
                              conn, throws)
          IN  /\ calls' = Append(Live(calls), t.call)
              /\ isTransaction' = t.isTransaction
              /\ transactionOpen' = t.transactionOpen
              /\ inPool' = t.inPool
    /\ nCalls' = nCalls + 1
    /\ UNCHANGED render
    /\ UNCHANGED <<lifecycleVars, handleVars, flagVars, errorVars, endLog>>

\* lines 170-201: the driver calls the callback of a request it holds
DriverAnswer ==
    /\ \E i \in DOMAIN Live(calls) :
          \E ans \in DriverAnswers :
          \E throws \in Throws(conn /\ QueryCallback(Live(calls)[i].dontRetry,
                                     Live(calls)[i].ast, ans).act = "retry") :
          \E cbThrows \in CallbackThrows(Live(calls)[i].op = "lock"
                            /\ Live(calls)[i].outer.st = "pending"
                            /\ QueryCallback(Live(calls)[i].dontRetry,
                                    Live(calls)[i].ast, ans).act = "resolve") :
             calls' = [Live(calls) EXCEPT ![i] =
                        Invoked(OnAnswer(WithCallback(@, cbThrows), ans, conn,
                                         throws))]
    /\ UNCHANGED render
    /\ UNCHANGED <<lifecycleVars, handleVars, flagVars, txVars, errorVars,
                   endLog, nCalls>>

Next ==
    \/ DriverConnect
    \/ ConnectCallback
    \/ AsyncError
    \/ End
    \/ HandleEnd
    \/ Query
    \/ Lock
    \/ CreateTransaction
    \/ DriverAnswer

Spec == Init /\ [][Next]_vars

\* lines 45-46 and 49: the options of the client for a configuration
ClientOptions(config) ==
    [port |-> IF config.port = 0 THEN DefaultPort ELSE config.port,
     username |-> IF config.username = "" THEN DefaultUser
                  ELSE config.username]

\* The calls on a connection that has connected, with a driver that calls
\* back for every request it has accepted.
InitCalls ==
    /\ \E config \in Configs : Fresh(ClientOptions(config), TRUE, "done")
    /\ render = NoRender

NextCalls ==
    \/ Query
    \/ Lock
    \/ CreateTransaction
    \/ DriverAnswer
    \/ AsyncError

FairSpec == InitCalls /\ [][NextCalls]_vars /\ WF_vars(DriverAnswer)

\* ------------------------------------------- renderSQLQuery on its own
\* the characters of the SQL texts and the value texts handed to
\* renderSQLQuery
SqlChars == { "$", "1", "2", "a" }
ValueTexts == { <<"a">>, <<"'">>, <<"$">>, <<"$", "2">> }

SeqsUpTo(S, n) == UNION { [1 .. k -> S] : k \in 0 .. n }

SqlTexts == SeqsUpTo(SqlChars, MaxSqlLen)
ValueLists == SeqsUpTo({ Str(t) : t \in ValueTexts }, MaxValues)

\* renderSQLQuery is called with a text and a list of values, on a
\* connection that has connected or on one that has not yet a handle
InitRender ==
    /\ \/ Fresh(NoClient, FALSE, "idle")
       \/ \E config \in Configs : Fresh(ClientOptions(config), TRUE, "done")
    /\ \E sql \in SqlTexts, values \in ValueLists :
            render = RenderStart(sql, values)

\* lines 250-259: reg.exec finds a placeholder and the loop body runs
RenderLoop ==
    /\ render.st = "loop"
    /\ LET m == RegExec(render.cur, render.lastIndex)
       IN  /\ m.found
           /\ render' = RenderPass(render, m, conn)
    /\ UNCHANGED connectionVars

\* lines 250 and 261: reg.exec finds nothing more and sql is returned
RenderReturn ==
    /\ render.st = "loop"
    /\ ~RegExec(render.cur, render.lastIndex).found
    /\ render' = [render EXCEPT !.st = "returned"]
    /\ UNCHANGED connectionVars

NextRender ==
    \/ RenderLoop
    \/ RenderReturn

SpecRender == InitRender /\ [][NextRender]_vars

\* ---------------------------------------------------------------- claims
SupportedLockTypes == { "LOCK_WRITE", "LOCK_EXCLUSIVE" }

\* an identifier escapeId accepts: a string that is not empty
ValidId(input) == input.t = "string" /\ Len(input.s) > 0

\* a call that asks for a statement to be run: query, createTransaction,
\* and lock with a supported lock type, a valid table and a valid or no
\* schema
QueryAttempt(c) ==
    c.op = "lock" =>
        /\ c.lockType \in SupportedLockTypes
        /\ ValidId(c.table)
        /\ (c.schema = UndefinedId \/ ValidId(c.schema))

IsNullAnswer(ans) == ~ans.isErr /\ ans.data.t = "null"
IsSelectAnswer(ans) ==
    ~ans.isErr /\ ans.data.t = "object" /\ ans.data.command = "SELECT"

\* C1: a query that is pending when the driver handle emits 'error' is
\* rejected from then on, whatever the driver answers to it afterwards, and
\* the connection is killed.
C1_PendingQueryFailsOnAsyncError ==
    \A i \in DOMAIN calls :
        calls[i].hit =>
            /\ calls[i].outer.st = "rejected"
            /\ calls[i].outer.err.kind \in {"FailedToConnect", "Generic"}
            /\ killed

\* C1 witness: the driver answered the cancelled query with a SELECT result
\* after the 'error' event; executeQuery's own promise resolved, the query
\* stays rejected.
C1_Witness ==
    \E i \in DOMAIN calls :
        /\ calls[i].hit
        /\ Len(calls[i].answers) = 1
        /\ IsSelectAnswer(calls[i].answers[1])
        /\ calls[i].inner.st = "resolved"
        /\ calls[i].outer.st = "rejected"
        /\ killed

\* C2 (as claimed): on a connection killed by an asynchronous error every
\* query attempt (query, createTransaction, lock with a supported lock type
\* and valid identifiers) fails with the connection-ended condition and
\* sends nothing to the driver.
C2_KilledConnectionFailsWithConnectionEnded ==
    \A i \in DOMAIN calls :
        LET c == calls[i]
        IN  (c.before.killed /\ QueryAttempt(c) /\ ~c.cbThrows) =>
                /\ c.sends = <<>>
                /\ ~c.req
                /\ c.thrown = NoErr
                /\ IF c.op = "lock"
                     THEN c.cbCount = 1 /\ c.cbErr.kind = "ConnectionEnded"
                   ELSE c.outer = Rejected(Err("ConnectionEnded", ""))

\* C3: for a query that is not AST based, when the first answer is null and
\* the second a SELECT result, executeQuery resolves with the rows of that
\* result; when both answers are null, it rejects with the
\* unexpected-result error.
C3_NullRetryOutcome ==
    \A i \in DOMAIN calls :
        LET c == calls[i]
        IN  (~c.ast /\ Len(c.answers) = 2 /\ IsNullAnswer(c.answers[1])) =>
                /\ IsSelectAnswer(c.answers[2]) =>
                        c.inner = Resolved(Array(c.answers[2].data.rows))
                /\ IsNullAnswer(c.answers[2]) =>
                        c.inner = Rejected(Err("UnexpectedResult", ""))

\* C3 witness: null, then a SELECT result with two rows, resolved with them
C3_Witness ==
    \E i \in DOMAIN calls :
        /\ ~calls[i].ast
        /\ Len(calls[i].answers) = 2
        /\ IsNullAnswer(calls[i].answers[1])
        /\ calls[i].answers[2].data = Result("SELECT", <<"r1", "r2">>)
        /\ calls[i].inner = Resolved(Array(<<"r1", "r2">>))

\* C4 (as claimed): when the first answer to a query that is not AST based
\* is a success with a null or absent result, the same SQL and values are
\* sent a second time; the driver never receives a query more than twice.
C4_RetryOnNullOrAbsent ==
    \A i \in DOMAIN calls :
        LET c == calls[i]
        IN  /\ Len(c.sends) <= 2
            /\ (~c.ast /\ Len(c.answers) >= 1 /\ ~c.answers[1].isErr
                    /\ c.answers[1].data.t \in {"null", "undefined"}) =>
                    Len(c.sends) = 2 /\ c.sends[2] = c.sends[1]

\* C4 (amended): when the first answer to a query that is not AST based is
\* a success with a null result, executeQuery is invoked exactly once more,
\* and that invocation sends the same SQL and values again or, the handle
\* being released, rejects with the TypeError without sending; an absent
\* (undefined) result is not retried and rejects with the unexpected-result
\* error; executeQuery runs at most twice and the driver receives the query
\* at most twice.
C4_RetryOnNullOnly ==
    \A i \in DOMAIN calls :
        LET c == calls[i]
        IN  /\ c.attempts <= 2
            /\ Len(c.sends) <= 2
            /\ (~c.ast /\ Len(c.answers) >= 1 /\ IsNullAnswer(c.answers[1])) =>
                    /\ c.attempts = 2
                    /\ \/ Len(c.sends) = 2 /\ c.sends[2] = c.sends[1]
                       \/ Len(c.sends) = 1
                            /\ c.inner = Rejected(Err("TypeError", ""))
            /\ (~c.ast /\ Len(c.answers) >= 1 /\ ~c.answers[1].isErr
                    /\ c.answers[1].data.t = "undefined") =>
                    /\ c.attempts = 1
                    /\ Len(c.sends) = 1
                    /\ c.inner = Rejected(Err("UnexpectedResult", ""))

\* C4 witness: a null first answer, the query with its value sent twice and
\* answered twice
C4_Witness ==
    \E i \in DOMAIN calls :
        /\ ~calls[i].ast
        /\ calls[i].values # <<>>
        /\ Len(calls[i].answers) = 2
        /\ IsNullAnswer(calls[i].answers[1])
        /\ calls[i].attempts = 2
        /\ Len(calls[i].sends) = 2
        /\ calls[i].sends[2] = calls[i].sends[1]

C6_UnsupportedLockTypeRefused ==
    \A i \in DOMAIN calls :
        LET c == calls[i]
        IN  (c.op = "lock" /\ c.lockType \notin SupportedLockTypes
                /\ ~c.before.ended /\ ~c.before.killed /\ ~c.cbThrows
                /\ ValidId(c.table)
                /\ (c.schema = UndefinedId \/ ValidId(c.schema))) =>
                /\ c.cbCount = 1
                /\ c.cbErr = Err("InvalidArgument", "lockType")
                /\ c.thrown = NoErr
                /\ c.issued = <<>>
                /\ c.sends = <<>>

\* C7: createTransaction on an ended or killed connection rejects at once
\* with the connection-ended error, calls neither query() nor the driver,
\* and leaves the transaction flags and the pool membership as they were.
C7_CreateTransactionRefusedWhenDead ==
    \A i \in DOMAIN calls :
        LET c == calls[i]
        IN  (c.op = "createTransaction"
                /\ (c.before.ended \/ c.before.killed)) =>
                /\ c.outer = Rejected(Err("ConnectionEnded", ""))
                /\ c.issued = <<>>
                /\ c.attempts = 0
                /\ c.sends = <<>>
                /\ ~c.req
                /\ isTransaction = c.before.isTransaction
                /\ transactionOpen = c.before.transactionOpen
                /\ inPool = c.before.inPool

\* C7 witness: createTransaction refused on a killed connection that is
\* still in the pool and has no transaction
C7_Witness ==
    \E i \in DOMAIN calls :
        /\ calls[i].op = "createTransaction"
        /\ calls[i].before.killed
        /\ calls[i].outer.st = "rejected"
        /\ inPool
        /\ ~transactionOpen

\* C8: createTransaction on a connection neither ended nor killed calls
\* query() exactly once, with the begin-transaction statement tagged
\* "transaction", at a moment when the transaction is already marked open
\* and the connection already detached from the pool; a connection marked
\* as a transaction is never in the pool afterwards.
C8_CreateTransactionDetachesThenBegins ==
    /\ isTransaction => transactionOpen /\ ~inPool
    /\ \A i \in DOMAIN calls :
            LET c == calls[i]
            IN  (c.op = "createTransaction"
                    /\ ~c.before.ended /\ ~c.before.killed) =>
                    /\ c.issued =
                         << [sql |-> <<"start transaction;">>,
                             mode |-> "transaction",
                             transactionOpen |-> TRUE, inPool |-> FALSE] >>
                    /\ isTransaction

\* C8 witness: the begin-transaction statement reached the driver and was
\* answered, on a connection that was in the pool before
C8_Witness ==
    \E i \in DOMAIN calls :
        /\ calls[i].op = "createTransaction"
        /\ calls[i].before.inPool
        /\ calls[i].sends =
              << [sql |-> <<"start transaction;">>, values |-> <<>>] >>
        /\ calls[i].outer.st = "resolved"
        /\ ~inPool

\* the positions of the events named e
Positions(e) == { k \in DOMAIN events : events[k].e = e }

\* C9 (as claimed): for every 'error' event of the driver handle the
\* adapter signals the error once and ends the connection once, the signal
\* before the end.
C9_SignalThenEndOncePerErrorEvent ==
    /\ Cardinality(Positions("emit")) = errorEvents
    /\ Cardinality(Positions("end")) = errorEvents
    /\ \A k \in Positions("end") :
            Cardinality({ j \in Positions("emit") : j < k })
                >= Cardinality({ j \in Positions("end") : j <= k })

\* C10: an end() call made after the 'error' handler has killed the
\* connection raises nothing and makes no call on the driver handle.
C10_EndAfterKillIsNoop ==
    \A k \in DOMAIN endLog :
        endLog[k].afterError =>
            endLog[k].raised = NoErr /\ endLog[k].handleCalls = 0

\* C10 witness: end() was called on a killed connection whose handle was
\* released
C10_Witness ==
    \E k \in DOMAIN endLog :
        /\ endLog[k].afterError
        /\ endLog[k].noop
        /\ killed
        /\ ~conn

\* C11: the callback of endConnection is invoked only once the driver
\* handle has emitted 'end', at most once, and its listener is added before
\* end() is called on the handle.
C11_EndCallbackAfterHandleEnd ==
    /\ endCallbacks <= 1
    /\ endCallbacks > 0 => handleEnded
    /\ \A k \in DOMAIN endLog :
            (~endLog[k].noop /\ endLog[k].raised = NoErr) =>
                \E j \in Positions("once") :
                    /\ j < Len(events)
                    /\ events[j + 1].e = "connection.end"
    /\ \A j \in Positions("once") :
            \A i \in Positions("connection.end") : j < i

\* C11 witness: end() ran endConnection, the handle emitted 'end' and the
\* callback was invoked
C11_Witness ==
    /\ endCallbacks = 1
    /\ handleEnded
    /\ ended
    /\ ~endListener

\* the statement a lock call with a supported lock type is to issue
ModePhrase(lockType) ==
    IF lockType = "LOCK_WRITE" THEN "SHARE ROW EXCLUSIVE"
    ELSE "ACCESS EXCLUSIVE"

ExpectedLockText(c) ==
    <<"LOCK TABLE ">>
        \o (IF c.schema = UndefinedId THEN <<>>
            ELSE EscapeIdentifier(c.schema.s) \o <<".">>)
        \o EscapeIdentifier(c.table.s)
        \o <<" IN ", ModePhrase(c.lockType), " MODE;">>

\* C12: a lock call with a supported lock type and valid identifiers, on a
\* connection that still has its handle, issues exactly one statement,
\* 'LOCK TABLE [schema.]table IN <phrase> MODE;', with SHARE ROW EXCLUSIVE
\* for LOCK_WRITE and ACCESS EXCLUSIVE for LOCK_EXCLUSIVE, the schema prefix
\* only when a schema is given, and both identifiers escaped; whatever the
\* driver receives for the call is that text.
C12_LockStatementText ==
    \A i \in DOMAIN calls :
        LET c == calls[i]
        IN  (c.op = "lock" /\ c.lockType \in SupportedLockTypes
                /\ QueryAttempt(c)) =>
                /\ ~c.before.killed =>
                        /\ Len(c.issued) = 1
                        /\ c.issued[1].sql = ExpectedLockText(c)
                /\ \A k \in DOMAIN c.sends :
                        /\ c.sends[k].sql = ExpectedLockText(c)
                        /\ c.sends[k].values = <<>>

\* C12 witness: the driver received the statement of an exclusive lock on a
\* table in a schema
C12_Witness ==
    \E i \in DOMAIN calls :
        /\ calls[i].op = "lock"
        /\ calls[i].lockType = "LOCK_EXCLUSIVE"
        /\ calls[i].schema = Str(<<"s">>)
        /\ Len(calls[i].sends) = 1
        /\ calls[i].sends[1].sql =
                <<"LOCK TABLE ", "\"", "s", "\"", ".", "\"", "t", "\"", "\"",
                  "\"", " IN ", "ACCESS EXCLUSIVE", " MODE;">>

\* the last answer the driver gave to a call that got one
LastAnswer(c) == c.answers[Len(c.answers)]

IsInsertAnswer(ans) ==
    ~ans.isErr /\ ans.data.t = "object" /\ ans.data.command = "INSERT"

C14_InsertResolvesWithFirstRow ==
    \A i \in DOMAIN calls :
        LET c == calls[i]
            d == LastAnswer(c).data
        IN  (~c.ast /\ Len(c.answers) > 0 /\ IsInsertAnswer(LastAnswer(c))) =>
                /\ c.inner.st = "resolved"
                /\ (d.hasRows /\ d.rows # <<>>) =>
                        c.inner.val = Row(Head(d.rows))
                /\ (~d.hasRows \/ d.rows = <<>>) => c.inner.val = Null

\* C14 witness: an INSERT result with two rows was answered and the promise
\* holds the first of them
C14_Witness ==
    \E i \in DOMAIN calls :
        /\ ~calls[i].ast
        /\ Len(calls[i].answers) > 0
        /\ LastAnswer(calls[i]) =
                Answer(FALSE, "", Result("INSERT", <<"r1", "r2">>))
        /\ calls[i].inner = Resolved(Row("r1"))

\* C15: when the driver answers a query of AST origin without error, the
\* promise of executeQuery is resolved with the data of the answer as it is,
\* whatever its command, and no retry is made.
C15_AstResolvesWithRawResult ==
    \A i \in DOMAIN calls :
        LET c == calls[i]
        IN  (c.ast /\ Len(c.answers) > 0 /\ ~LastAnswer(c).isErr) =>
                /\ c.inner = Resolved(LastAnswer(c).data)
                /\ c.attempts = 1

\* C15 witness: a SELECT result answered to a query of AST origin is the
\* value of the promise, command and rows included
C15_Witness ==
    \E i \in DOMAIN calls :
        /\ calls[i].ast
        /\ calls[i].answers =
                <<Answer(FALSE, "", Result("SELECT", <<"r1", "r2">>))>>
        /\ calls[i].inner = Resolved(Result("SELECT", <<"r1", "r2">>))

RECURSIVE Substituted(_, _, _)
\* the text in which the placeholders met from left to right, the n-th one
\* on (n counted from 0), are replaced by the escaped values n, n+1, ...
\* and those past the last value are left as they are
Substituted(text, values, n) ==
    LET m == RegExec(text, 0)
    IN  IF ~m.found THEN text
        ELSE SubSeq(text, 1, m.index)
                \o (IF n < Len(values)
                        THEN EscapeLiteral(ToText(values[n + 1]))
                    ELSE m.text)
                \o Substituted(SubSeq(text, m.lastIndex + 1, Len(text)),
                               values, n + 1)

RECURSIVE Placeholders(_)
\* the placeholders a scan of text meets, in order
Placeholders(text) ==
    LET m == RegExec(text, 0)
    IN  IF ~m.found THEN <<>>
        ELSE <<m.text>>
                \o Placeholders(SubSeq(text, m.lastIndex + 1, Len(text)))

DigitValue(ch) ==
    CHOOSE d \in 0 .. 9 :
        <<"0", "1", "2", "3", "4", "5", "6", "7", "8", "9">>[d + 1] = ch

RECURSIVE NumberOf(_)
\* the number a sequence of digits writes
NumberOf(digits) ==
    IF digits = <<>> THEN 0
    ELSE 10 * NumberOf(SubSeq(digits, 1, Len(digits) - 1))
            + DigitValue(digits[Len(digits)])

\* C16: the text renderSQLQuery returns is the SQL text with the N-th
\* placeholder of the left-to-right scan replaced, where it stands, by the
\* escaped N-th value, whatever its number, and with every placeholder met
\* after the values are used up left as it is.
C16_RenderSubstitutesInScanOrder ==
    render.st = "returned" =>
        render.cur = Substituted(render.sql, render.values, 0)

\* C17: for a SQL text with two placeholders and two values a and b,
\* renderSQLQuery returns the text with a and then b substituted in scan
\* order, and a scan of the returned text meets no placeholder numbered 1
\* or 2.
C17_RenderTwoPlaceholders ==
    (/\ render.st = "returned"
     /\ Len(Placeholders(render.sql)) = 2
     /\ Len(render.values) = 2) =>
        /\ render.cur = Substituted(render.sql, render.values, 0)
        /\ \A k \in DOMAIN Placeholders(render.cur) :
                NumberOf(Tail(Placeholders(render.cur)[k]))
                    \notin 1 .. Len(render.values)

\* C18: a lock call with a supported lock type and valid identifiers
\* invokes its callback exactly once when it is over, with (null, result)
\* when the statement succeeded and with the error when it failed, and at
\* no time has invoked it more than once.
C18_LockCallsBackExactlyOnce ==
    \A i \in DOMAIN calls :
        LET c == calls[i]
        IN  (c.op = "lock" /\ c.lockType \in SupportedLockTypes
                /\ QueryAttempt(c)) =>
                /\ c.cbCount <= 1
                /\ Settled(c) =>
                        /\ c.cbCount = 1
                        /\ c.thrown = NoErr
                        /\ c.outer.st = "resolved" =>
                                c.cbErr = NoErr /\ c.cbVal = c.outer.val
                        /\ c.outer.st = "rejected" => c.cbErr = c.outer.err

\* the promise of an executeQuery invocation is pending
InnerPending == \E i \in DOMAIN calls : calls[i].inner.st = "pending"

\* C19: when the driver calls back for every request it accepted, the
\* promise executeQuery returned is settled in the end, resolved or
\* rejected: it is pending only while a request is with the driver (at
\* most two requests per call, the second one the retry after a null
\* answer), and a throw of the send leaves it rejected.
C19_ExecuteQuerySettles ==
    /\ [](\A i \in DOMAIN calls :
            /\ calls[i].inner.st = "pending" => calls[i].req
            /\ calls[i].attempts <= 2
            /\ Len(calls[i].answers) <= calls[i].attempts)
    /\ InnerPending ~> ~InnerPending

\* C19 witness: the first answer was null, the send of the retry threw, and
\* the promise is rejected with what was thrown
C19_Witness ==
    \E i \in DOMAIN calls :
        /\ calls[i].attempts = 2
        /\ Len(calls[i].answers) = 1
        /\ IsNullAnswer(calls[i].answers[1])
        /\ ~calls[i].req
        /\ calls[i].inner = Rejected(Err("DriverThrow", ""))

\* C20: when createTransaction was called on a connection neither ended
\* nor killed and its begin statement failed (the promise it returned is
\* rejected), the connection is marked as a transaction, its transaction is
\* marked open and it is not in the pool: the failure undoes none of them.
C20_FailedBeginKeepsTransactionMarks ==
    \A i \in DOMAIN calls :
        LET c == calls[i]
        IN  (c.op = "createTransaction"
                /\ ~c.before.ended /\ ~c.before.killed
                /\ c.outer.st = "rejected") =>
                /\ isTransaction
                /\ transactionOpen
                /\ ~inPool

\* C20 witness: on a connection that was in the pool and not a transaction,
\* the driver answered the begin statement with an error
C20_Witness ==
    \E i \in DOMAIN calls :
        /\ calls[i].op = "createTransaction"
        /\ calls[i].before.inPool
        /\ ~calls[i].before.isTransaction
        /\ Len(calls[i].answers) = 1
        /\ calls[i].answers[1].isErr
        /\ calls[i].outer.st = "rejected"
        /\ isTransaction /\ transactionOpen /\ ~inPool

====
